---- MODULE Spec2Model ----
(***************************************************************************)
(* Model of custom_components/enocean_cs/switch.py: the EnOcean switch     *)
(* platform of a home-automation host.                                     *)
(*                                                                         *)
(*   Spec       one EnOceanSwitch entity: turn_on, turn_off, value_changed *)
(*   SpecSetup  PLATFORM_SCHEMA, async_setup_platform and the unique-id    *)
(*              migration against the entity registry                      *)
(***************************************************************************)
EXTENDS Integers, Sequences, FiniteSets, TLC

VARIABLES
    \* ---- one EnOceanSwitch instance ----
    channel,      \* self.channel
    dev_id,       \* self.dev_id
    sender_id,    \* self.sender_id
    is_on,        \* self._attr_is_on
    sent,         \* the last packet handed to self.send_packet, or NoPacket
    updates,      \* number of self.schedule_update_ha_state() calls so far
    call,         \* the last method call on the entity: its name, its argument, whether it raised
    \* ---- platform setup ----
    registry,     \* entity registry of (switch, DOMAIN): unique_id -> entity_id
    config,       \* the configuration being set up (raw, then validated)
    pc,           \* position inside the platform set-up
    log,          \* what the last _migrate_to_new_unique_id logged
    entities      \* the entities handed to async_add_entities, in order

entity_vars == <<channel, dev_id, sender_id, is_on, sent, updates, call>>
setup_vars  == <<registry, config, pc, log, entities>>
vars        == <<channel, dev_id, sender_id, is_on, sent, updates, call,
                 registry, config, pc, log, entities>>

(***************************************************************************)
(* Program constants                                                       *)
(***************************************************************************)
RORG_4BS == 165
RORG_VLD == 210
SWITCH_ALL_CHANNELS == 32
CHANNEL_MIN == 0
CHANNEL_MAX == 31
OV_ON == 100
OV_OFF == 0
CMD_STATUS == 4

(***************************************************************************)
(* Bounds of the model                                                     *)
(***************************************************************************)
MaxUpdates == 2
MaxSetups == 2

NoPacket == [rorg |-> 0]

\* Device and sender addresses an entity is constructed with.
Addresses == { [dev |-> <<1, 2>>, sender |-> <<255, 1>>],
               [dev |-> <<2, 1>>, sender |-> <<1, 2>>] }

(***************************************************************************)
(* Inbound telegrams.  rorg is packet.data[0]; parses says whether         *)
(* packet.parse_eep and the packet.parsed[...] look-ups succeed; the other *)
(* fields are the raw_value of the parsed sub-fields.                      *)
(***************************************************************************)
Telegram(rorg, parses, dt, mr, div, cmd, io, ov) ==
    [rorg |-> rorg, parses |-> parses, DT |-> dt, MR |-> mr, DIV |-> div,
     CMD |-> cmd, IO |-> io, OV |-> ov]

\* <<MR, DIV>> readings on both sides of 1 W for every exponent.
Readings == { <<0, 0>>, <<1, 0>>, <<2, 0>>, <<5, 1>>, <<10, 1>>, <<11, 1>>, <<150, 1>>,
              <<100, 2>>, <<101, 2>>, <<1000, 3>>, <<1001, 3>> }
IOSamples == {5, 7}
OVSamples == {0, 1, OV_ON}

PowerTelegrams ==
    { Telegram(RORG_4BS, TRUE, dt, r[1], r[2], 0, 0, 0) :
        dt \in {0, 1}, r \in Readings }

StatusTelegrams(ios) ==
    { Telegram(RORG_VLD, TRUE, 0, 0, 0, cmd, io, ov) :
        cmd \in {1, CMD_STATUS}, io \in ios, ov \in OVSamples }

MalformedTelegrams ==
    { Telegram(r, FALSE, 0, 0, 0, 0, 0, 0) : r \in {RORG_4BS, RORG_VLD} }

OtherTelegrams ==
    { Telegram(r, p, 0, 0, 0, 0, 0, 0) : r \in {246}, p \in BOOLEAN }

Telegrams(ch) ==
    PowerTelegrams \cup StatusTelegrams(IOSamples \cup ({ch} \ {SWITCH_ALL_CHANNELS}))
        \cup MalformedTelegrams \cup OtherTelegrams

(***************************************************************************)
(* EnOceanSwitch                                                           *)
(***************************************************************************)
RECURSIVE Pow10(_)
Pow10(n) == IF n = 0 THEN 1 ELSE 10 * Pow10(n - 1)

\* A slip of the threshold comparison: watts >= 1.
WattsAtLeastOne(raw_val, divisor) == raw_val >= Pow10(divisor)

\* watts = raw_val / (10**divisor); watts > 1.  The float quotient of two
\* integers below 2^53 exceeds 1 exactly when the dividend exceeds the divisor.
WattsAboveOne(raw_val, divisor) == raw_val > Pow10(divisor)

\* RadioPacket.create(...) of turn_on / turn_off: the keyword arguments.
CommandPacket(sender, destination, io, ov) ==
    [rorg |-> RORG_VLD, rorg_func |-> 1, rorg_type |-> 1,
     sender |-> sender, destination |-> destination,
     command |-> 1, DV |-> 0, IO |-> io, OV |-> ov]

\* turn_on that addresses channel 0 instead of the configured channel.
turn_on_packet_channel0(self_sender, self_dev, self_channel) ==
    CommandPacket(self_sender, self_dev, 0, OV_ON)

turn_on_packet(self_sender, self_dev, self_channel) ==
    CommandPacket(self_sender, self_dev, self_channel, OV_ON)

\* turn_off copied from turn_on with the output value left at 0x64.
turn_off_packet_copied(self_sender, self_dev, self_channel) ==
    CommandPacket(self_sender, self_dev, self_channel, OV_ON)

turn_off_packet(self_sender, self_dev, self_channel) ==
    CommandPacket(self_sender, self_dev, self_channel, OV_OFF)

\* The outcome of value_changed(packet) on an entity with self.channel and
\* self._attr_is_on: the new _attr_is_on, the number of
\* schedule_update_ha_state() calls, and whether the call raised.
Outcome(on, n, r) == [is_on |-> on, scheduled |-> n, raised |-> r]

\* A power branch that also turns the switch off at or below the threshold.
power_telegram_result_off(self_is_on, packet) ==
    IF ~packet.parses THEN Outcome(self_is_on, 0, TRUE)
    ELSE IF packet.DT = 1
         THEN Outcome(WattsAboveOne(packet.MR, packet.DIV), 1, FALSE)
         ELSE Outcome(self_is_on, 0, FALSE)

\* The 0xA5 branch: parse_eep(0x12, 0x01), DT, MR, DIV, the threshold.
power_telegram_result(self_is_on, packet) ==
    IF ~packet.parses THEN Outcome(self_is_on, 0, TRUE)
    ELSE IF packet.DT = 1 /\ WattsAboveOne(packet.MR, packet.DIV)
         THEN Outcome(TRUE, 1, FALSE)
         ELSE Outcome(self_is_on, 0, FALSE)

\* A status branch without the ALL_CHANNELS alternative.
status_telegram_result_exact(self_channel, self_is_on, packet) ==
    IF ~packet.parses THEN Outcome(self_is_on, 0, TRUE)
    ELSE IF packet.CMD = CMD_STATUS /\ packet.IO = self_channel
         THEN Outcome(packet.OV > 0, 1, FALSE)
         ELSE Outcome(self_is_on, 0, FALSE)

\* A status branch that catches the parse failure and treats the telegram as off.
status_telegram_result_caught(self_channel, self_is_on, packet) ==
    IF ~packet.parses THEN Outcome(FALSE, 1, FALSE)
    ELSE IF packet.CMD = CMD_STATUS
            /\ (packet.IO = self_channel \/ self_channel = SWITCH_ALL_CHANNELS)
         THEN Outcome(packet.OV > 0, 1, FALSE)
         ELSE Outcome(self_is_on, 0, FALSE)

\* The 0xD2 branch: parse_eep(0x01, 0x01), CMD, IO, OV, the channel match.
status_telegram_result(self_channel, self_is_on, packet) ==
    IF ~packet.parses THEN Outcome(self_is_on, 0, TRUE)
    ELSE IF packet.CMD = CMD_STATUS
            /\ (packet.IO = self_channel \/ self_channel = SWITCH_ALL_CHANNELS)
         THEN Outcome(packet.OV > 0, 1, FALSE)
         ELSE Outcome(self_is_on, 0, FALSE)

value_changed_result(self_channel, self_is_on, packet) ==
    IF packet.rorg = RORG_4BS THEN power_telegram_result(self_is_on, packet)
    ELSE IF packet.rorg = RORG_VLD
         THEN status_telegram_result(self_channel, self_is_on, packet)
         ELSE Outcome(self_is_on, 0, FALSE)

NoTelegram == Telegram(0, FALSE, 0, 0, 0, 0, 0, 0)
Call(op, packet, raised) == [op |-> op, packet |-> packet, raised |-> raised]

\* EnOceanSwitch(dev_id, dev_name, channel, sender_id)
EntityInit ==
    /\ channel \in CHANNEL_MIN..SWITCH_ALL_CHANNELS
    /\ \E a \in Addresses : dev_id = a.dev /\ sender_id = a.sender
    /\ is_on = FALSE
    /\ sent = NoPacket
    /\ updates = 0
    /\ call = Call("init", NoTelegram, FALSE)

turn_on ==
    /\ sent' = turn_on_packet(sender_id, dev_id, channel)
    /\ is_on' = TRUE
    /\ call' = Call("turn_on", NoTelegram, FALSE)
    /\ UNCHANGED <<channel, dev_id, sender_id, updates>>

\* turn_off that sends the command and waits for the status telegram.
turn_off_not_optimistic ==
    /\ sent' = turn_off_packet(sender_id, dev_id, channel)
    /\ is_on' = is_on
    /\ call' = Call("turn_off", NoTelegram, FALSE)
    /\ UNCHANGED <<channel, dev_id, sender_id, updates>>

turn_off ==
    /\ sent' = turn_off_packet(sender_id, dev_id, channel)
    /\ is_on' = FALSE
    /\ call' = Call("turn_off", NoTelegram, FALSE)
    /\ UNCHANGED <<channel, dev_id, sender_id, updates>>

value_changed ==
    /\ updates < MaxUpdates
    /\ \E packet \in Telegrams(channel) :
         LET r == value_changed_result(channel, is_on, packet) IN
           /\ is_on' = r.is_on
           /\ updates' = updates + r.scheduled
           /\ call' = Call("value_changed", packet, r.raised)
    /\ UNCHANGED <<channel, dev_id, sender_id, sent>>

(***************************************************************************)
(* Platform set-up: PLATFORM_SCHEMA, unique ids, registry migration        *)
(***************************************************************************)
DevIds == { <<1, 2>>, <<2, 1>> }
SetupSender == <<255, 1>>

\* enocean.utils.combine_hex: big-endian fold of the address bytes.
RECURSIVE combine_hex(_)
combine_hex(data) ==
    IF Len(data) = 0 THEN 0
    ELSE combine_hex(SubSeq(data, 1, Len(data) - 1)) * 256 + data[Len(data)]

\* f"{combine_hex(dev_id)}-{channel}".  A formatted id is kept as the tuple
\* of the integers it prints: two ids are equal strings exactly when the
\* tuples are equal (an old id has no "-", a new id has one after the digits).
generate_unique_id(dev, ch) == <<combine_hex(dev), ch>>

\* f"{combine_hex(dev_id)}"
old_unique_id_of(dev) == <<combine_hex(dev)>>

\* ---- entity registry: a set of entries [unique_id, entity_id] ----
NoEntity == 0

HasUniqueId(reg, uid) == \E e \in reg : e.unique_id = uid

\* ent_reg.async_get_entity_id(Platform.SWITCH, DOMAIN, unique_id)
async_get_entity_id(reg, uid) ==
    IF HasUniqueId(reg, uid)
    THEN (CHOOSE e \in reg : e.unique_id = uid).entity_id
    ELSE NoEntity

\* ent_reg.async_update_entity(entity_id, new_unique_id=...): ValueError when
\* another entry already has the new unique id, else the entry is re-keyed.
async_update_entity(reg, entity_id, new_uid) ==
    IF HasUniqueId(reg, new_uid)
    THEN [registry |-> reg, error |-> "ValueError"]
    ELSE [registry |-> { IF e.entity_id = entity_id
                         THEN [unique_id |-> new_uid, entity_id |-> entity_id]
                         ELSE e : e \in reg },
          error |-> "none"]

\* A migration that asks for the old id again as the new unique id.
migrate_to_same_unique_id(reg, dev, ch) ==
    LET old_unique_id == old_unique_id_of(dev)
        entity_id == async_get_entity_id(reg, old_unique_id)
    IN  IF entity_id # NoEntity
        THEN LET upd == async_update_entity(reg, entity_id, old_unique_id)
             IN  IF upd.error = "ValueError"
                 THEN [registry |-> reg, log |-> "warning", raised |-> FALSE]
                 ELSE [registry |-> upd.registry, log |-> "debug", raised |-> FALSE]
        ELSE [registry |-> reg, log |-> "none", raised |-> FALSE]

\* A migration without the except clause: the ValueError leaves the function.
migrate_uncaught(reg, dev, ch) ==
    LET old_unique_id == old_unique_id_of(dev)
        entity_id == async_get_entity_id(reg, old_unique_id)
    IN  IF entity_id # NoEntity
        THEN LET new_unique_id == generate_unique_id(dev, ch)
                 upd == async_update_entity(reg, entity_id, new_unique_id)
             IN  IF upd.error = "ValueError"
                 THEN [registry |-> reg, log |-> "none", raised |-> TRUE]
                 ELSE [registry |-> upd.registry, log |-> "debug", raised |-> FALSE]
        ELSE [registry |-> reg, log |-> "none", raised |-> FALSE]

\* _migrate_to_new_unique_id(hass, dev_id, channel): the registry afterwards,
\* what was logged, and whether an exception left the function.
migrate_to_new_unique_id(reg, dev, ch) ==
    LET old_unique_id == old_unique_id_of(dev)
        entity_id == async_get_entity_id(reg, old_unique_id)
    IN  IF entity_id # NoEntity
        THEN LET new_unique_id == generate_unique_id(dev, ch)
                 upd == async_update_entity(reg, entity_id, new_unique_id)
             IN  IF upd.error = "ValueError"
                 THEN [registry |-> reg, log |-> "warning", raised |-> FALSE]
                 ELSE [registry |-> upd.registry, log |-> "debug", raised |-> FALSE]
        ELSE [registry |-> reg, log |-> "none", raised |-> FALSE]

\* ---- PLATFORM_SCHEMA ----
\* A raw channel value of the configuration: given or omitted, and when given
\* whether it is an int and which.
RawChannel(given, isint, value) == [given |-> given, isint |-> isint, value |-> value]

RawChannels ==
    { RawChannel(FALSE, TRUE, 0) }
      \cup { RawChannel(TRUE, TRUE, v) :
               v \in {-1, CHANNEL_MIN, 5, 7, CHANNEL_MAX, CHANNEL_MAX + 1, CHANNEL_MAX + 2} }
      \cup { RawChannel(TRUE, FALSE, 5) }

\* vol.All(int, vol.Range(min=0, max=31))
channel_validator(isint, value) ==
    isint /\ value >= CHANNEL_MIN /\ value <= CHANNEL_MAX

\* vol.Optional(CONF_CHANNEL, default=SWITCH_ALL_CHANNELS): vol.All(...).
\* A missing key is filled with the default, and the value validator is then
\* applied to it as to a supplied value.
PLATFORM_SCHEMA(raw_id, raw_channel) ==
    LET isint == IF raw_channel.given THEN raw_channel.isint ELSE TRUE
        value == IF raw_channel.given THEN raw_channel.value ELSE SWITCH_ALL_CHANNELS
    IN  [raw |-> raw_channel, valid |-> channel_validator(isint, value),
         id |-> raw_id, channel |-> value, sender_id |-> SetupSender]

NoConfig == [raw |-> RawChannel(FALSE, TRUE, 0), valid |-> FALSE,
             id |-> <<>>, channel |-> 0, sender_id |-> <<>>]

\* EnOceanSwitch.__init__
EnOceanSwitch(dev, ch, sender) ==
    [dev_id |-> dev, channel |-> ch, sender_id |-> sender,
     unique_id |-> generate_unique_id(dev, ch), is_on |-> FALSE]

RECURSIVE MaxOf(_)
MaxOf(S) == IF S = {} THEN 0
            ELSE LET x == CHOOSE y \in S : TRUE
                     m == MaxOf(S \ {x})
                 IN  IF x > m THEN x ELSE m

\* async_add_entities registers an entity that has a unique id: the entry of
\* that unique id is reused when there is one, else one is created.
async_get_or_create(reg, uid) ==
    IF HasUniqueId(reg, uid) THEN reg
    ELSE reg \cup { [unique_id |-> uid,
                     entity_id |-> MaxOf({ e.entity_id : e \in reg }) + 1] }

\* Registries left by earlier runs: entries under old ids, entries under new ids.
InitEntries ==
    { [unique_id |-> old_unique_id_of(<<1, 2>>), entity_id |-> 1],
      [unique_id |-> old_unique_id_of(<<2, 1>>), entity_id |-> 2],
      [unique_id |-> generate_unique_id(<<1, 2>>, 5), entity_id |-> 3],
      [unique_id |-> generate_unique_id(<<2, 1>>, 7), entity_id |-> 4] }

SetupInit ==
    /\ registry \in SUBSET InitEntries
    /\ config = NoConfig
    /\ pc = "idle"
    /\ log = "none"
    /\ entities = <<>>

\* The host validates a platform configuration with PLATFORM_SCHEMA and calls
\* async_setup_platform only with a valid one.
validate_config ==
    /\ pc = "idle"
    /\ Len(entities) < MaxSetups
    /\ \E d \in DevIds, rc \in RawChannels :
         LET c == PLATFORM_SCHEMA(d, rc) IN
           /\ config' = c
           /\ pc' = IF c.valid THEN "migrate" ELSE "idle"
    /\ UNCHANGED <<registry, log, entities>>

\* async_setup_platform, line 81: _migrate_to_new_unique_id(hass, dev_id, channel)
setup_migrate ==
    /\ pc = "migrate"
    /\ LET m == migrate_to_new_unique_id(registry, config.id, config.channel) IN
         /\ registry' = m.registry
         /\ log' = m.log
         /\ pc' = IF m.raised THEN "failed" ELSE "add"
    /\ UNCHANGED <<config, entities>>

\* async_setup_platform, line 82: async_add_entities([EnOceanSwitch(...)])
setup_add_entities ==
    /\ pc = "add"
    /\ LET e == EnOceanSwitch(config.id, config.channel, config.sender_id) IN
         /\ entities' = Append(entities, e)
         /\ registry' = async_get_or_create(registry, e.unique_id)
    /\ pc' = "idle"
    /\ UNCHANGED <<config, log>>

SetupIdle ==
    /\ registry = {}
    /\ config = NoConfig
    /\ pc = "idle"
    /\ log = "none"
    /\ entities = <<>>

EntityIdle ==
    /\ channel = 0
    /\ dev_id = <<>>
    /\ sender_id = <<>>
    /\ is_on = FALSE
    /\ sent = NoPacket
    /\ updates = 0
    /\ call = Call("init", NoTelegram, FALSE)

Init == EntityInit /\ SetupIdle

Next ==
    \/ turn_on /\ UNCHANGED setup_vars
    \/ turn_off /\ UNCHANGED setup_vars
    \/ value_changed /\ UNCHANGED setup_vars

Spec == Init /\ [][Next]_vars

InitSetup == EntityIdle /\ SetupInit

NextSetup ==
    \/ validate_config /\ UNCHANGED entity_vars
    \/ setup_migrate /\ UNCHANGED entity_vars
    \/ setup_add_entities /\ UNCHANGED entity_vars

SpecSetup == InitSetup /\ [][NextSetup]_vars

(***************************************************************************)
(* Properties of one EnOceanSwitch entity (checked under Spec)             *)
(***************************************************************************)
\* The telegram of the step just taken, when that step was value_changed.
Delivered(p) == call'.op = "value_changed" /\ p = call'.packet
Parsed4BS(p) == p.rorg = 165 /\ p.parses
ParsedVLD(p) == p.rorg = 210 /\ p.parses

\* 10^DIV for the two-bit exponent, written out.
TenTo(div) == CASE div = 0 -> 1 [] div = 1 -> 10 [] div = 2 -> 100 [] div = 3 -> 1000

\* C1: whenever a command telegram has been handed to the transport it has
\* command = 1, DV = 0, IO = the entity's channel, sender = sender_id,
\* destination = dev_id and OV in {0x64, 0x00}; after turn_on the telegram has
\* OV = 0x64 and after turn_off OV = 0x00.
C1_CommandTelegram ==
    /\ sent # NoPacket =>
         /\ sent.command = 1
         /\ sent.DV = 0
         /\ sent.IO = channel
         /\ sent.OV \in {100, 0}
         /\ sent.sender = sender_id
         /\ sent.destination = dev_id
    /\ call.op = "turn_on" => (sent # NoPacket /\ sent.OV = 100)
    /\ call.op = "turn_off" => (sent # NoPacket /\ sent.OV = 0)

C1_Witness ==
    /\ call.op = "turn_off"
    /\ channel = 7
    /\ sent # NoPacket
    /\ sent.IO = 7
    /\ sent.OV = 0
    /\ sent.sender = <<255, 1>>
    /\ sent.destination = <<1, 2>>

\* C2: a parsed 0xD2 telegram with CMD = 4 whose IO equals the configured
\* channel, or any IO when the configured channel is ALL_CHANNELS, sets is_on
\* to (OV > 0) and schedules exactly one state refresh, whatever is_on was.
C2_StatusUpdate ==
    [][ LET p == call'.packet IN
          (Delivered(p) /\ ParsedVLD(p) /\ p.CMD = 4
             /\ (p.IO = channel \/ channel = 32))
          => (is_on' = (p.OV > 0) /\ updates' = updates + 1) ]_vars

C2_Witness ==
    /\ call.op = "value_changed"
    /\ call.packet.rorg = 210
    /\ call.packet.CMD = 4
    /\ call.packet.IO = 5
    /\ call.packet.OV = 0
    /\ channel = 32
    /\ sent # NoPacket
    /\ sent.OV = 100
    /\ ~is_on
    /\ updates = 1

\* C3: value_changed changes neither is_on nor the number of scheduled
\* refreshes for a status telegram of another channel (configured channel not
\* ALL_CHANNELS), a 0xD2 telegram with CMD # 4, a 0xA5 telegram with DT # 1 or
\* watts <= 1, and any other discriminator; no 0xA5 telegram turns is_on off.
C3_NoUpdateCase(p, ch) ==
    \/ ParsedVLD(p) /\ p.CMD = 4 /\ p.IO # ch /\ ch # 32
    \/ ParsedVLD(p) /\ p.CMD # 4
    \/ Parsed4BS(p) /\ (p.DT # 1 \/ p.MR <= TenTo(p.DIV))
    \/ p.rorg \notin {165, 210}

\* C3: a value_changed step with a telegram of a no-update case keeps is_on
\* and the refresh count and does not raise; a 0xA5 step never turns is_on off.
C3_Ignored ==
    [][ LET p == call'.packet IN
          /\ (Delivered(p) /\ C3_NoUpdateCase(p, channel))
               => (is_on' = is_on /\ updates' = updates /\ ~call'.raised)
          /\ (Delivered(p) /\ p.rorg = 165) => ~(is_on /\ ~is_on') ]_vars

C3_Witness ==
    /\ call.op = "value_changed"
    /\ call.packet.rorg = 210
    /\ call.packet.parses
    /\ call.packet.CMD = 4
    /\ call.packet.IO = 5
    /\ call.packet.OV = 0
    /\ channel = 7
    /\ is_on
    /\ updates = 0

AsStatusTelegram(cmd_packet) ==
    Telegram(210, TRUE, 0, 0, 0, 4, cmd_packet.IO, cmd_packet.OV)

C5_RoundTripAll ==
    channel \in 0..31 =>
      \A prior \in BOOLEAN :
        /\ value_changed_result(channel, prior,
              AsStatusTelegram(turn_on_packet(sender_id, dev_id, channel))).is_on = TRUE
        /\ value_changed_result(channel, prior,
              AsStatusTelegram(turn_off_packet(sender_id, dev_id, channel))).is_on = FALSE

C5_RoundTripStep ==
    (channel \in 0..31 /\ sent # NoPacket
       /\ call.op \in {"turn_on", "turn_off"}
       /\ Delivered(AsStatusTelegram(sent)))
    => (is_on' = (call.op = "turn_on") /\ updates' = updates + 1)

\* C5: the round trip holds of the operators in every state and of every
\* step that delivers the echo of the command just sent.
C5_RoundTrip == []C5_RoundTripAll /\ [][C5_RoundTripStep]_vars

C5_Witness ==
    /\ channel = 31
    /\ sent # NoPacket
    /\ sent.OV = 100
    /\ call.op = "value_changed"
    /\ call.packet = AsStatusTelegram(sent)
    /\ is_on
    /\ updates = 1

\* C9: a 0xA5 or 0xD2 telegram that fails profile parsing makes the call
\* raise and leaves every field of the entity, the last packet sent and the
\* number of scheduled refreshes as they were.
C9_ParseFailure ==
    [][ LET p == call'.packet IN
          (Delivered(p) /\ p.rorg \in {165, 210} /\ ~p.parses)
          => /\ call'.raised
             /\ is_on' = is_on
             /\ updates' = updates
             /\ sent' = sent
             /\ <<channel, dev_id, sender_id>>' = <<channel, dev_id, sender_id>> ]_vars

C9_Witness ==
    /\ call.op = "value_changed"
    /\ call.raised
    /\ call.packet.rorg = 210
    /\ is_on
    /\ updates = 1

\* C10: is_on starts FALSE and every call leaves in is_on the value of the
\* writer it is, or the old value when it is no writer: turn_on writes TRUE
\* and turn_off FALSE (in the same call that hands the command to the
\* transport), a matching CMD = 4 status telegram writes (OV > 0), a DT = 1
\* power telegram above the threshold writes TRUE.
C10_Written(c, ch, old) ==
    CASE c.op = "turn_on" -> TRUE
      [] c.op = "turn_off" -> FALSE
      [] c.op = "value_changed" /\ ParsedVLD(c.packet) /\ c.packet.CMD = 4
           /\ (c.packet.IO = ch \/ ch = 32) -> c.packet.OV > 0
      [] c.op = "value_changed" /\ Parsed4BS(c.packet) /\ c.packet.DT = 1
           /\ c.packet.MR > TenTo(c.packet.DIV) -> TRUE
      [] OTHER -> old

C6_ChannelRange ==
    /\ \A i \in 1..Len(entities) :
         entities[i].channel \in 0..31 \/ entities[i].channel = 32
    /\ (config # NoConfig /\ config.raw.given /\ config.valid)
         => (config.raw.isint /\ config.raw.value \in 0..31)
    /\ (config # NoConfig /\ ~config.raw.given)
         => (config.valid /\ config.channel = 32)

\* C7: a migration that finds an entity under the old id and none under the
\* new id re-keys that entity to the new id and leaves none under the old id;
\* a migration that finds no entity under the old id changes nothing; the
\* migration repeated right away with the same arguments changes nothing; a
\* device's old id, once gone, never comes back.
C7_MigrationStep ==
    pc = "migrate" =>
      LET old == old_unique_id_of(config.id)
          new == generate_unique_id(config.id, config.channel)
      IN  /\ (HasUniqueId(registry, old) /\ ~HasUniqueId(registry, new)) =>
                /\ \E e \in registry :
                     /\ e.unique_id = old
                     /\ registry' = (registry \ {e})
                           \cup {[unique_id |-> new, entity_id |-> e.entity_id]}
                /\ ~HasUniqueId(registry', old)
                /\ log' = "debug"
          /\ ~HasUniqueId(registry, old) => (registry' = registry /\ log' = "none")

C7_OldStaysAbsent ==
    \A d \in DevIds :
      ~HasUniqueId(registry, old_unique_id_of(d)) => ~HasUniqueId(registry', old_unique_id_of(d))

C7_SecondCallNoOp ==
    pc = "add" =>
      migrate_to_new_unique_id(registry, config.id, config.channel).registry = registry

\* C7: the migration is exactly-once and idempotent (the three parts above).
C7_MigrationOnce ==
    []C7_SecondCallNoOp /\ [][C7_MigrationStep /\ C7_OldStaysAbsent]_vars

C7_Witness ==
    /\ pc = "idle"
    /\ Len(entities) = 2
    /\ entities[1].dev_id = <<1, 2>> /\ entities[1].channel = 0
    /\ entities[2].dev_id = <<1, 2>> /\ entities[2].channel = 7
    /\ [unique_id |-> <<258, 0>>, entity_id |-> 1] \in registry
    /\ ~HasUniqueId(registry, <<258>>)
    /\ HasUniqueId(registry, <<258, 7>>)
    /\ log = "none"

\* C8: a migration that finds an entity under the old id and another under
\* the new id logs a warning, leaves the registry as it was and raises
\* nothing: the set-up is then at async_add_entities, which hands over the
\* new switch entity.
C8_ConflictStep ==
    /\ (pc = "migrate" /\ HasUniqueId(registry, old_unique_id_of(config.id))
          /\ HasUniqueId(registry, generate_unique_id(config.id, config.channel)))
       => (registry' = registry /\ log' = "warning" /\ pc' = "add")
    /\ pc = "add" =>
         /\ Len(entities') = Len(entities) + 1
         /\ entities'[Len(entities')].unique_id
               = generate_unique_id(config.id, config.channel)
         /\ entities'[Len(entities')].channel = config.channel
         /\ pc' = "idle"

\* C8: every conflicting migration step is recovered locally and followed by
\* the hand-over of the new entity.
C8_ConflictRecovered == [][C8_ConflictStep]_vars

C8_Witness ==
    /\ pc = "idle"
    /\ log = "warning"
    /\ config.id = <<1, 2>> /\ config.channel = 5
    /\ Len(entities) = 1
    /\ entities[1].unique_id = <<258, 5>>
    /\ [unique_id |-> <<258>>, entity_id |-> 1] \in registry
    /\ [unique_id |-> <<258, 5>>, entity_id |-> 3] \in registry

====
